---- MODULE Spec2Model ----
(***************************************************************************)
(* A model of the missing_bids simulation-and-optimisation engine:         *)
(* environment generation (rebidding.py), the multistage collusion         *)
(* metrics (rebidding.py), the bid data preparation (auction_data.py),     *)
(* the asymptotic moment constraint and solvers (mb_api/asymptotics.py).   *)
(*                                                                         *)
(* Real numbers are kept exact as integers over a fixed denominator; each  *)
(* section states its unit.                                                *)
(***************************************************************************)
EXTENDS Integers, Sequences, FiniteSets, TLC

VARIABLES
    rng,        \* state of the process-wide generator np.random
    calls,      \* completed calls of _generate_raw_environments, in order
    thr,        \* the generation calls running as threads of one process
    metric,     \* the collusion metric object last constructed
    verdict,    \* the last call of the metric on an environment
    given,      \* AuctionData: the bid frame last passed to set_bid_data
    df_bids,    \* AuctionData.df_bids
    df_auctions,                \* AuctionData.df_auctions, indexed by pid
    list_available_auctions,    \* AuctionData._list_available_auctions
    lazy,       \* the lazy properties num_auctions and num_bids of the data
    demand,     \* the columns compute_demand_moments added to df_bids
    histories,  \* AuctionData._enum_categories and _num_histories
    share,      \* the last value get_competitive_share returned
    win_vector, \* the last call of MultistageDataMixin._win_vector
    solver,     \* an asymptotic solver: class, moment matrix, confidence level
    tolerance,  \* the solver's pvalues and tolerance properties, once read
    problem,    \* AsymptoticProblem: beliefs, moment matrix, tolerance
    admitted,   \* the moment constraint evaluated on a weight vector
    pool,       \* the parallel solver: its class and its parameter grid
    running,    \* the grid index every worker is solving (0: none)
    results,    \* the solved points, in the order the workers completed them
    output      \* what the parallel solver returned

genVars == <<rng, calls, thr>>
metricVars == <<metric, verdict>>

dataVars == <<given, df_bids, df_auctions, list_available_auctions,
             lazy, demand, histories, share>>

winVars == <<win_vector>>

solverVars == <<solver, tolerance>>

problemVars == <<problem, admitted>>

parallelVars == <<pool, running, results, output>>

vars == <<genVars, metricVars, dataVars, problemVars, parallelVars, winVars,
          solverVars>>

\* what the actions of one part of the program leave alone
notGen == <<metricVars, dataVars, problemVars, parallelVars, winVars, solverVars>>
notMetric == <<genVars, dataVars, problemVars, parallelVars, winVars, solverVars>>
notData == <<genVars, metricVars, problemVars, parallelVars, winVars, solverVars>>
notProblem == <<genVars, metricVars, dataVars, parallelVars, winVars, solverVars>>
notParallel == <<genVars, metricVars, dataVars, problemVars, winVars, solverVars>>
notWin == <<genVars, metricVars, dataVars, problemVars, parallelVars, solverVars>>
notSolver == <<genVars, metricVars, dataVars, problemVars, parallelVars, winVars>>

(***************************************************************************)
(* Bounds of the model.                                                    *)
(***************************************************************************)
MaxNum == 2         \* largest population size passed to a generation call
MaxCalls == 3       \* generation calls kept in the history
MaxDevs == 3        \* longest deviation profile passed to a metric
MaxRows == 4        \* most rows of a bid frame
MaxEnvs == 2        \* environments a convex problem weighs
MaxGrid == 3        \* most points of a parameter grid
MaxHistories == 3   \* most rows of a bid frame whose histories are categorised
MaxMoments == 3     \* most rows of a moment matrix passed to a solver
MaxLevels == 5      \* longest list of confidence levels passed to a solver

Workers == {1, 2}

Seeds == {0, 1}
Threads == {1, 2}

(***************************************************************************)
(* Every specification below runs one part of the program; the objects of  *)
(* the other parts stay unconstructed.                                     *)
(***************************************************************************)
ThreadIdle == [pc |-> "idle", num |-> 0, seed |-> 0, rng0 |-> 0, env |-> <<>>]

NoMetric == [cls |-> "none", given |-> <<>>, error |-> "", steps |-> <<>>,
             deviations |-> <<>>, rho_down |-> 0, rho_up |-> 0]

NoVerdict == [called |-> FALSE, env |-> <<>>, error |-> "", flagged |-> FALSE]

MetricIdle == metric = NoMetric /\ verdict = NoVerdict

GenIdle == rng = 0 /\ calls = <<>> /\ thr = [t \in Threads |-> ThreadIdle]

\* a lazy property not read yet
NotCached == [cached |-> FALSE, value |-> 0]

NoLazy == [num_auctions |-> NotCached, num_bids |-> NotCached]

NoDemand == [computed |-> FALSE, rho_p |-> 0, rho_m |-> 0, rows |-> <<>>]

NoHistories == [categorized |-> FALSE, enum_categories |-> <<>>, num_histories |-> 0]

NoShare == [asked |-> FALSE, p_c |-> <<>>, nan |-> FALSE, num |-> 0, den |-> 0]

MomentsIdle ==
    /\ lazy = NoLazy
    /\ demand = NoDemand
    /\ histories = NoHistories
    /\ share = NoShare

DataIdle ==
    /\ given = <<>>
    /\ df_bids = <<>>
    /\ df_auctions = <<>>
    /\ list_available_auctions = {}
    /\ MomentsIdle

NoWinVector == [called |-> FALSE, deviations |-> <<>>, error |-> "", columns |-> <<>>]

WinIdle == win_vector = NoWinVector

NoLevel == [isfloat |-> FALSE, level |-> 0, levels |-> <<>>]

NoSolver == [cls |-> "none", moment_matrix |-> <<>>, confidence_level |-> NoLevel]

NoTolerance == [read |-> FALSE, pvalues |-> <<>>, tolerance |-> <<>>]

SolverIdle == solver = NoSolver /\ tolerance = NoTolerance

NoProblem == [beliefs |-> <<>>, moment_matrix |-> <<>>, demands |-> <<>>,
              margin |-> <<>>, tolerance |-> <<>>]

NotEvaluated == [evaluated |-> FALSE, w |-> <<>>, ok |-> FALSE]

ProblemIdle == problem = NoProblem /\ admitted = NotEvaluated

NoPool == [cls |-> "none", grid |-> <<>>]

NotReturned == [returned |-> FALSE, list |-> <<>>]

ParallelIdle ==
    /\ pool = NoPool
    /\ running = [wk \in Workers |-> 0]
    /\ results = <<>>
    /\ output = NotReturned

NotGenIdle ==
    MetricIdle /\ DataIdle /\ ProblemIdle /\ ParallelIdle /\ WinIdle /\ SolverIdle

NotMetricIdle ==
    GenIdle /\ DataIdle /\ ProblemIdle /\ ParallelIdle /\ WinIdle /\ SolverIdle

NotDataIdle ==
    GenIdle /\ MetricIdle /\ ProblemIdle /\ ParallelIdle /\ WinIdle /\ SolverIdle

NotProblemIdle ==
    GenIdle /\ MetricIdle /\ DataIdle /\ ParallelIdle /\ WinIdle /\ SolverIdle

NotParallelIdle ==
    GenIdle /\ MetricIdle /\ DataIdle /\ ProblemIdle /\ WinIdle /\ SolverIdle

NotWinIdle ==
    GenIdle /\ MetricIdle /\ DataIdle /\ ProblemIdle /\ ParallelIdle /\ SolverIdle

NotSolverIdle ==
    GenIdle /\ MetricIdle /\ DataIdle /\ ProblemIdle /\ ParallelIdle /\ WinIdle

(***************************************************************************)
(* np.random: a deterministic generator with one process-wide state.       *)
(* seed(s) sets the state as a function of s alone; every uniform draw     *)
(* advances the state and returns a value of [0, 1).  The generator is a   *)
(* full-period linear congruential one; a draw is k / Levels, kept as k.   *)
(***************************************************************************)
Modulus == 64
Multiplier == 29
Increment == 17
Levels == 4

RngStates == 0 .. (Modulus - 1)

SeedState(seed) == (29 * seed + 11) % Modulus

NextState(s) == (Multiplier * s + Increment) % Modulus

Uniform(s) == (s * Levels) \div Modulus

RECURSIVE Advance(_, _)
Advance(s, k) == IF k = 0 THEN s ELSE NextState(Advance(s, k - 1))

\* np.random.rand(k) from state s: the k values drawn, in order.
Rand(s, k) == [i \in 1 .. k |-> Uniform(Advance(s, i))]

\* np.random.rand(n, 3): the draws fill the matrix row by row.
Rand3(s, n) == [r \in 1 .. n |-> [c \in 1 .. 3 |-> Rand(s, 3 * n)[3 * (r - 1) + c]]]

(***************************************************************************)
(* environments.descending_sort: every row sorted in descending order.     *)
(***************************************************************************)
RECURSIVE InsertDesc(_, _)
InsertDesc(x, s) ==
    IF s = <<>> THEN <<x>>
    ELSE IF x >= Head(s) THEN <<x>> \o s
    ELSE <<Head(s)>> \o InsertDesc(x, Tail(s))

RECURSIVE SortDesc(_)
SortDesc(s) == IF s = <<>> THEN <<>> ELSE InsertDesc(Head(s), SortDesc(Tail(s)))

descending_sort(m) == [r \in 1 .. Len(m) |-> SortDesc(m[r])]

(***************************************************************************)
(* RefinedMultistageEnvironment._generate_raw_environments(num, seed).     *)
(* A population is a sequence of rows of 7 components, every component in  *)
(* units of 1 / (Levels * Levels): One is the number 1.                    *)
(***************************************************************************)
One == Levels * Levels

\* the columns, range(7) of the source shifted to TLA+'s 1-based sequences
win_down == 1
marg_cont == 2
marg_info == 3
reserve == 4
win0 == 5
win_up == 6
cost == 7

\* A population size is given in halves, so that non-integral sizes exist:
\* h stands for the number h / 2.
NumInputs == (-2) .. (2 * MaxNum)

IsPositiveInteger(h) == h > 0 /\ h % 2 = 0

\* int(num): truncation towards zero.
IntOf(h) == IF h >= 0 THEN h \div 2 ELSE -((-h) \div 2)

\* np.random.seed(seed): the process-wide state is replaced.
SeededNoReset(state, seed) == state

Seeded(state, seed) == SeedState(seed)

\* np.empty((num, 7)): the rows exist, no column is written yet (the 0 stands
\* for memory that is never read before it is written).
Empty(n) == [r \in 1 .. n |-> [c \in 1 .. 7 |-> 0]]

\* env[:, [win_down, win0, win_up]] = ...: the columns the sorted draws go to.
WinColumnsSwapped == <<win0, win_down, win_up>>

WinColumns == <<win_down, win0, win_up>>

SetWins(env, sorted) ==
    [r \in 1 .. Len(env) |->
        [c \in 1 .. 7 |->
            IF \E k \in 1 .. 3 : WinColumns[k] = c
            THEN Levels * sorted[r][CHOOSE k \in 1 .. 3 : WinColumns[k] = c]
            ELSE env[r][c]]]

SetColumn(env, col, values) ==
    [r \in 1 .. Len(env) |-> [env[r] EXCEPT ![col] = values[r]]]

\* np.random.rand(num) * (env[:, win_down] - env[:, win0])
MargContUnscaled(u, row) == u * Levels

MargCont(u, row) == u * ((row[win_down] - row[win0]) \div Levels)

\* np.random.rand(num) * (1 - env[:, win_down])
MargInfo(u, row) == u * ((One - row[win_down]) \div Levels)

\* The statements after np.empty, each one call of np.random.rand: the
\* generator state s they start from, the population so far.
StepWins(s, env) == SetWins(env, descending_sort(Rand3(s, Len(env))))

StepReserve(s, env) ==
    SetColumn(env, reserve, [r \in 1 .. Len(env) |-> Levels * Rand(s, Len(env))[r]])

StepMargCont(s, env) ==
    SetColumn(env, marg_cont,
              [r \in 1 .. Len(env) |-> MargCont(Rand(s, Len(env))[r], env[r])])

StepMargInfo(s, env) ==
    SetColumn(env, marg_info,
              [r \in 1 .. Len(env) |-> MargInfo(Rand(s, Len(env))[r], env[r])])

StepCost(s, env) ==
    SetColumn(env, cost, [r \in 1 .. Len(env) |-> Levels * Rand(s, Len(env))[r]])

\* The whole call run alone from generator state `state`: what it returns
\* and the state it leaves the generator in.  A negative size makes
\* np.empty raise ValueError, after the generator was seeded.
GenerateRaw(state, num, seed) ==
    LET s0 == Seeded(state, seed)
        n == IntOf(num)
    IN  IF n < 0
        THEN [status |-> "ValueError", env |-> <<>>, rng |-> s0]
        ELSE LET e0 == Empty(n)
                 e1 == StepWins(s0, e0)
                 s1 == Advance(s0, 3 * n)
                 e2 == StepReserve(s1, e1)
                 s2 == Advance(s1, n)
                 e3 == StepMargCont(s2, e2)
                 s3 == Advance(s2, n)
                 e4 == StepMargInfo(s3, e3)
                 s4 == Advance(s3, n)
                 e5 == StepCost(s4, e4)
                 s5 == Advance(s4, n)
             IN  [status |-> "ok", env |-> e5, rng |-> s5]

(***************************************************************************)
(* Generation calls made one after the other.                              *)
(***************************************************************************)
InitGen ==
    /\ rng \in RngStates
    /\ calls = <<>>
    /\ thr = [t \in Threads |-> ThreadIdle]
    /\ NotGenIdle

Generate(num, seed) ==
    /\ Len(calls) < MaxCalls
    /\ LET ret == GenerateRaw(rng, num, seed)
       IN  /\ rng' = ret.rng
           /\ calls' = Append(calls, [num |-> num, seed |-> seed,
                                      status |-> ret.status, env |-> ret.env])
    /\ UNCHANGED <<thr, notGen>>

Next == \E num \in NumInputs, seed \in Seeds : Generate(num, seed)

Spec == InitGen /\ [][Next]_vars

(***************************************************************************)
(* Generation calls running as threads of one process.  Every call of      *)
(* np.random is one step (the generator serialises its calls); between     *)
(* two of them another thread may run.  The statements that touch only     *)
(* locals (int(num), np.empty) go with the step before them.               *)
(***************************************************************************)
ThreadNums == {h \in NumInputs : IsPositiveInteger(h)}

\* The threads start after some earlier caller seeded the generator.
ThreadStartStates == {SeedState(seed) : seed \in Seeds}

InitThreads ==
    /\ rng \in ThreadStartStates
    /\ calls = <<>>
    /\ thr = [t \in Threads |-> ThreadIdle]
    /\ NotGenIdle

\* the call is entered
Call(t, num, seed) ==
    /\ thr[t].pc = "idle"
    /\ thr' = [thr EXCEPT ![t] = [pc |-> "seed", num |-> num, seed |-> seed,
                                  rng0 |-> rng, env |-> <<>>]]
    /\ UNCHANGED <<rng, calls, notGen>>

\* np.random.seed(seed); num = int(num); env = np.empty((num, 7))
DoSeed(t) ==
    /\ thr[t].pc = "seed"
    /\ rng' = Seeded(rng, thr[t].seed)
    /\ thr' = [thr EXCEPT ![t].pc = "wins", ![t].env = Empty(IntOf(thr[t].num))]
    /\ UNCHANGED <<calls, notGen>>

DoWins(t) ==
    /\ thr[t].pc = "wins"
    /\ rng' = Advance(rng, 3 * Len(thr[t].env))
    /\ thr' = [thr EXCEPT ![t].pc = "reserve", ![t].env = StepWins(rng, thr[t].env)]
    /\ UNCHANGED <<calls, notGen>>

DoReserve(t) ==
    /\ thr[t].pc = "reserve"
    /\ rng' = Advance(rng, Len(thr[t].env))
    /\ thr' = [thr EXCEPT ![t].pc = "marg_cont",
                          ![t].env = StepReserve(rng, thr[t].env)]
    /\ UNCHANGED <<calls, notGen>>

DoMargCont(t) ==
    /\ thr[t].pc = "marg_cont"
    /\ rng' = Advance(rng, Len(thr[t].env))
    /\ thr' = [thr EXCEPT ![t].pc = "marg_info",
                          ![t].env = StepMargCont(rng, thr[t].env)]
    /\ UNCHANGED <<calls, notGen>>

DoMargInfo(t) ==
    /\ thr[t].pc = "marg_info"
    /\ rng' = Advance(rng, Len(thr[t].env))
    /\ thr' = [thr EXCEPT ![t].pc = "cost",
                          ![t].env = StepMargInfo(rng, thr[t].env)]
    /\ UNCHANGED <<calls, notGen>>

\* env[:, cost] = np.random.rand(num); return env
DoCost(t) ==
    /\ thr[t].pc = "cost"
    /\ rng' = Advance(rng, Len(thr[t].env))
    /\ thr' = [thr EXCEPT ![t].pc = "done",
                          ![t].env = StepCost(rng, thr[t].env)]
    /\ UNCHANGED <<calls, notGen>>

NextThreads ==
    \E t \in Threads :
        \/ \E num \in ThreadNums, seed \in Seeds : Call(t, num, seed)
        \/ DoSeed(t)
        \/ DoWins(t)
        \/ DoReserve(t)
        \/ DoMargCont(t)
        \/ DoMargInfo(t)
        \/ DoCost(t)

SpecThreads == InitThreads /\ [][NextThreads]_vars

(***************************************************************************)
(* The collusion metrics of rebidding.py.  Win probabilities, costs and    *)
(* deviations are in units of 1 / Den; payoffs and penalties, products of  *)
(* two of them, in units of 1 / (Den * Den).                               *)
(***************************************************************************)
Den == 10

DevValues == {-2, -1, 0, 1, 2}
Beliefs == {4, 5, 10}
Costs == {0, 5}

Range(s) == {s[i] : i \in 1 .. Len(s)}

Profiles == UNION {[1 .. n -> DevValues] : n \in 1 .. MaxDevs}

\* a sequence of Booleans summed, as Python's sum() does
RECURSIVE SumTrue(_)
SumTrue(b) == IF b = <<>> THEN 0 ELSE (IF Head(b) THEN 1 ELSE 0) + SumTrue(Tail(b))

RECURSIVE SortedAsc(_)
SortedAsc(S) ==
    IF S = {} THEN <<>>
    ELSE LET lo == CHOOSE x \in S : \A y \in S : x <= y
         IN  <<lo>> \o SortedAsc(S \ {lo})

\* analytics._ordered_deviations: the deviations with 0 among them, each
\* once, in ascending order.
ordered_deviations(deviations) == SortedAsc(Range(deviations) \cup {0})

\* _check_up_down_deviations: TRUE when it raises ValueError.
check_up_down_deviations_down_only(deviations) ==
    LET dev == ordered_deviations(deviations)
    IN  SumTrue([i \in 1 .. Len(dev) |-> dev[i] < 0]) # 1

check_up_down_deviations(deviations) ==
    LET dev == ordered_deviations(deviations)
    IN  \/ SumTrue([i \in 1 .. Len(dev) |-> dev[i] < 0]) # 1
        \/ SumTrue([i \in 1 .. Len(dev) |-> dev[i] > 0]) # 1

\* RefinedMultistageIsNonCompetitive.__init__(deviations): the check, then
\* the base class's __init__ (which keeps the ordered deviations), then the
\* unpacking of the three deviations, which raises unless there are three.
NewRefinedMultistageIsNonCompetitive(deviations) ==
    LET base == [NoMetric EXCEPT !.cls = "RefinedMultistageIsNonCompetitive",
                                 !.given = deviations]
        raised == [base EXCEPT !.error = "ValueError"]
        dev == ordered_deviations(deviations)
    IN  IF check_up_down_deviations(deviations)
        THEN [raised EXCEPT !.steps = <<"_check_up_down_deviations">>]
        ELSE IF Len(dev) # 3
        THEN [raised EXCEPT !.steps = <<"_check_up_down_deviations", "super().__init__",
                                        "unpack">>,
                            !.deviations = dev]
        ELSE [base EXCEPT !.steps = <<"_check_up_down_deviations", "super().__init__",
                                      "unpack">>,
                          !.deviations = dev, !.rho_down = dev[1], !.rho_up = dev[3]]

\* MultistageIsNonCompetitive(deviations): only the base class's __init__.
NewMultistageIsNonCompetitive(deviations) ==
    [NoMetric EXCEPT !.cls = "MultistageIsNonCompetitive", !.given = deviations,
                     !.steps = <<"super().__init__">>,
                     !.deviations = ordered_deviations(deviations)]

\* DimensionlessCollusionMetrics.equilibrium_index: where the deviation 0 is
\* (1-based here: Python's payoffs[:k] are the entries before it).
equilibrium_index(m) == CHOOSE i \in 1 .. Len(m.deviations) : m.deviations[i] = 0

\* DimensionlessCollusionMetrics._get_payoffs: belief * (1 + deviation - cost),
\* the cost being the last component of the environment.
get_payoffs(m, env) ==
    [i \in 1 .. Len(m.deviations) |-> env[i] * (Den + m.deviations[i] - env[Len(env)])]

max_win_prob == Den

MaxOf(s) == CHOOSE x \in Range(s) : \A y \in Range(s) : y <= x

all_upward_dev_never(m) == FALSE

all_upward_dev(m) == \A i \in 1 .. Len(m.deviations) : m.deviations[i] >= 0

get_penalty(m, env) ==
    [i \in 1 .. equilibrium_index(m) - 1 |-> (max_win_prob - env[i]) * m.deviations[i]]

\* _upward_non_ic
upward_non_ic(m, env) ==
    LET payoffs == get_payoffs(m, env)
        upward_payoffs == SubSeq(payoffs, equilibrium_index(m), Len(payoffs))
    IN  MaxOf(upward_payoffs) > upward_payoffs[1]

\* _downward_non_ic: "raise" stands for np.max raising ValueError on an
\* empty array.
downward_non_ic(m, env) ==
    IF all_upward_dev(m) THEN "False"
    ELSE LET payoffs == get_payoffs(m, env)
             penalty == get_penalty(m, env)
             adjusted == [i \in 1 .. equilibrium_index(m) - 1 |-> payoffs[i] + penalty[i]]
         IN  IF adjusted = <<>> THEN "raise"
             ELSE IF MaxOf(adjusted) > payoffs[equilibrium_index(m)] THEN "True"
             ELSE "False"

\* MultistageIsNonCompetitive.__call__
CallMetric(m, env) ==
    LET down == downward_non_ic(m, env)
    IN  IF down = "raise"
        THEN [called |-> TRUE, env |-> env, error |-> "ValueError", flagged |-> FALSE]
        ELSE [called |-> TRUE, env |-> env, error |-> "",
              flagged |-> (down = "True") \/ upward_non_ic(m, env)]

\* the environments a metric of k deviations is called on: k beliefs, a cost
Environments(k) ==
    {e \in [1 .. k + 1 -> Beliefs \cup Costs] :
        (\A i \in 1 .. k : e[i] \in Beliefs) /\ e[k + 1] \in Costs}

InitMetric == MetricIdle /\ NotMetricIdle

ConstructRefined(deviations) ==
    /\ metric.cls = "none"
    /\ metric' = NewRefinedMultistageIsNonCompetitive(deviations)
    /\ UNCHANGED <<verdict, notMetric>>

ConstructMultistage(deviations) ==
    /\ metric.cls = "none"
    /\ metric' = NewMultistageIsNonCompetitive(deviations)
    /\ UNCHANGED <<verdict, notMetric>>

\* metric(env): the call changes nothing of the metric, so one call per
\* metric shows all it can do.
Evaluate(env) ==
    /\ metric.cls = "MultistageIsNonCompetitive"
    /\ ~verdict.called
    /\ verdict' = CallMetric(metric, env)
    /\ UNCHANGED <<metric, notMetric>>

NextMetric ==
    \/ \E deviations \in Profiles : ConstructRefined(deviations)
    \/ \E deviations \in Profiles : ConstructMultistage(deviations)
    \/ \E env \in Environments(Len(metric.deviations)) : Evaluate(env)

SpecMetric == InitMetric /\ [][NextMetric]_vars

(***************************************************************************)
(* MultistageDataMixin._win_vector (mb_api/asymptotics.py).  Every column  *)
(* the call writes is a function of the bid frame and of one deviation:    *)
(* a column is kept as the function that computed it and the deviation it  *)
(* was given.                                                              *)
(***************************************************************************)
\* moment_names()
moment_names == <<"win_down", "marg_cont", "marg_info", "win0", "win_up">>

\* the column names zipped with the deviations
WinNames == <<"win_down", "win0", "win_up">>

\* zip(a, b) stops at the end of the shorter sequence
ZipLen(a, b) == IF Len(a) <= Len(b) THEN Len(a) ELSE Len(b)

Column(function, rho) == [function |-> function, rho |-> rho]

\* the columns written on this_df_bids, by name
WrittenColumns(deviations) ==
    LET down_dev == deviations[1]
        zipped == {WinNames[k] : k \in 1 .. ZipLen(WinNames, deviations)}
    IN  [col \in zipped \cup {"marg_cont", "marg_info"} |->
            CASE col = "marg_cont" -> Column("is_marginal_cont", down_dev)
              [] col = "marg_info" -> Column("is_marginal_info", down_dev)
              [] OTHER ->
                    LET k == CHOOSE k \in 1 .. ZipLen(WinNames, deviations) :
                                WinNames[k] = col
                    IN  Column("_get_new_wins", deviations[k])]

\* _win_vector(df_bids, deviations): the check, the columns, the selection
\* of the moment columns (KeyError for a column never written)
win_vector_of(deviations) ==
    IF check_up_down_deviations(deviations)
    THEN [called |-> TRUE, deviations |-> deviations, error |-> "ValueError",
          columns |-> <<>>]
    ELSE LET written == WrittenColumns(deviations)
         IN  IF Range(moment_names) \subseteq DOMAIN written
             THEN [called |-> TRUE, deviations |-> deviations, error |-> "",
                   columns |-> [col \in Range(moment_names) |-> written[col]]]
             ELSE [called |-> TRUE, deviations |-> deviations, error |-> "KeyError",
                   columns |-> <<>>]

InitWin == win_vector = NoWinVector /\ NotWinIdle

WinVector(deviations) ==
    /\ ~win_vector.called
    /\ win_vector' = win_vector_of(deviations)
    /\ UNCHANGED notWin

NextWin == \E deviations \in Profiles : WinVector(deviations)

SpecWin == InitWin /\ [][NextWin]_vars

(***************************************************************************)
(* AuctionData (auction_data.py).  A bid frame is a sequence of rows; a    *)
(* normalised bid is a positive integer or NaN.                            *)
(***************************************************************************)
NaN == -1

Pids == {1, 2}
BidValues == {1, 2, 3}

isnull(x) == x = NaN

RawRows == [pid : Pids, norm_bid : BidValues \cup {NaN}]

Frames == UNION {[1 .. n -> RawRows] : n \in 1 .. MaxRows}

RECURSIVE InsertAsc(_, _)
InsertAsc(x, s) ==
    IF s = <<>> THEN <<x>>
    ELSE IF x <= Head(s) THEN <<x>> \o s
    ELSE <<Head(s)>> \o InsertAsc(x, Tail(s))

\* list.sort()
RECURSIVE SortAsc(_)
SortAsc(s) == IF s = <<>> THEN <<>> ELSE InsertAsc(Head(s), SortAsc(Tail(s)))

\* list(this_df.norm_bid.dropna()) of auction a
RECURSIVE BidsOf(_, _)
BidsOf(df, a) ==
    IF df = <<>> THEN <<>>
    ELSE IF Head(df).pid = a /\ ~isnull(Head(df).norm_bid)
    THEN <<Head(df).norm_bid>> \o BidsOf(Tail(df), a)
    ELSE BidsOf(Tail(df), a)

\* generate_auction_data: one row per auction with more than one non-null
\* bid, holding its lowest and second lowest bid.
generate_auction_data(df) ==
    LET list_auctions == {df[i].pid : i \in 1 .. Len(df)}
        kept == {a \in list_auctions : Len(BidsOf(df, a)) > 1}
    IN  [a \in kept |->
            LET bids == SortAsc(BidsOf(df, a))
            IN  [lowest |-> bids[1], second_lowest |-> bids[2]]]

\* _add_most_competitive(x), x = (pid, norm_bid)
add_most_competitive_row_lowest(u, v, auctions, available) ==
    IF u \in available THEN auctions[u].lowest ELSE NaN

add_most_competitive_row(u, v, auctions, available) ==
    IF u \in available
    THEN LET low1 == auctions[u].lowest
             low2 == auctions[u].second_lowest
         IN  IF v = low1 THEN low2 ELSE low1
    ELSE NaN

\* add_most_competitive: the column most_competitive, row by row
add_most_competitive(df, auctions, available) ==
    [i \in 1 .. Len(df) |->
        [pid |-> df[i].pid, norm_bid |-> df[i].norm_bid,
         most_competitive |->
            add_most_competitive_row(df[i].pid, df[i].norm_bid, auctions, available)]]

RECURSIVE DropNull(_)
DropNull(df) ==
    IF df = <<>> THEN <<>>
    ELSE IF isnull(Head(df).norm_bid) \/ isnull(Head(df).most_competitive)
    THEN DropNull(Tail(df))
    ELSE <<Head(df)>> \o DropNull(Tail(df))

\* set_bid_data(df): the object's fields after the call
set_bid_data(df) ==
    LET auctions == generate_auction_data(df)
        available == DOMAIN auctions
    IN  [df_bids |-> DropNull(add_most_competitive(df, auctions, available)),
         df_auctions |-> auctions,
         list_available_auctions |-> available]

SetFields(df) ==
    LET after == set_bid_data(df)
    IN  /\ given' = df
        /\ df_bids' = after.df_bids
        /\ df_auctions' = after.df_auctions
        /\ list_available_auctions' = after.list_available_auctions

\* AuctionData(reference_file): the frame read from the file is set.
InitData ==
    /\ \E df \in Frames :
          LET after == set_bid_data(df)
          IN  /\ given = df
              /\ df_bids = after.df_bids
              /\ df_auctions = after.df_auctions
              /\ list_available_auctions = after.list_available_auctions
    /\ MomentsIdle
    /\ NotDataIdle

\* the rows of df at the positions of sel, in order, as a frame to pass on
RECURSIVE Selection(_, _, _)
Selection(df, sel, i) ==
    IF i > Len(df) THEN <<>>
    ELSE (IF i \in sel THEN <<[pid |-> df[i].pid, norm_bid |-> df[i].norm_bid]>>
          ELSE <<>>) \o Selection(df, sel, i + 1)

\* set_bid_data called with a selection of the rows of the current frame
SetBidData(sel) ==
    /\ sel # {}
    /\ SetFields(Selection(df_bids, sel, 1))
    /\ UNCHANGED <<lazy, demand, histories, share, notData>>

NextData == \E sel \in SUBSET (1 .. Len(df_bids)) : SetBidData(sel)

SpecData == InitData /\ [][NextData]_vars

(***************************************************************************)
(* The lazy properties of PIDMeanAuctionData and AsymptoticAuctionData     *)
(* (mb_api/asymptotics.py): num_auctions and num_bids are computed from    *)
(* df_bids by the first read and stored on the object; later reads return  *)
(* what was stored.  confidence_threshold and _square_residual_to_variance *)
(* read them.                                                              *)
(***************************************************************************)
\* len(set(self.df_bids.pid))
num_auctions(df) == Cardinality({df[i].pid : i \in 1 .. Len(df)})

\* self.df_bids.shape[0]
num_bids(df) == Len(df)

\* lazy_property.LazyProperty: the attribute after a read that would
\* compute `fresh`
LazyProperty(attribute, fresh) ==
    IF attribute.cached THEN attribute ELSE [cached |-> TRUE, value |-> fresh]

ReadNumAuctions ==
    /\ lazy' = [lazy EXCEPT
                    !.num_auctions = LazyProperty(@, num_auctions(df_bids))]
    /\ UNCHANGED <<given, df_bids, df_auctions, list_available_auctions,
                   demand, histories, share, notData>>

ReadNumBids ==
    /\ lazy' = [lazy EXCEPT !.num_bids = LazyProperty(@, num_bids(df_bids))]
    /\ UNCHANGED <<given, df_bids, df_auctions, list_available_auctions,
                   demand, histories, share, notData>>

NextLazy == NextData \/ ReadNumAuctions \/ ReadNumBids

SpecLazy == InitData /\ [][NextLazy]_vars

(***************************************************************************)
(* The demand moments of AuctionData (auction_data.py).  rho_p and rho_m   *)
(* are in halves; both sides of a comparison with a deviated bid are       *)
(* multiplied by RhoUnit.  A 0/1 sample is kept as 0 or 1.                 *)
(***************************************************************************)
RhoUnit == 2
RhoValues == {-1, 0, 1, 2}

\* self._demand_outcomes, y = (D, Pm, Pp)
demand_outcomes ==
    [i \in 0 .. 3 |->
        CASE i = 0 -> <<0, 0, 0>>
          [] i = 1 -> <<1, 0, 0>>
          [] i = 2 -> <<0, 1, 0>>
          [] i = 3 -> <<1, 0, 1>>]

\* self.demand_outcomes.values()
Outcomes == {demand_outcomes[i] : i \in DOMAIN demand_outcomes}

\* _encode(x, y, z)
encode(x, y, z) == 1000 + 100 * x + 10 * y + z

\* 1. * (condition)
Indicator(condition) == IF condition THEN 1 ELSE 0

\* sample_D of a row
sample_D(norm_bid, most_competitive) == Indicator(norm_bid < most_competitive)

\* sample_Pp of a row, bid_up = (1 + rho_p) * norm_bid
sample_Pp(norm_bid, most_competitive, rho_p) ==
    Indicator(RhoUnit * most_competitive < (RhoUnit + rho_p) * norm_bid)
        * Indicator(norm_bid < most_competitive)

sample_Pm_bid_down_only(norm_bid, most_competitive, rho_m) ==
    Indicator(RhoUnit * most_competitive >= (RhoUnit - rho_m) * norm_bid)

\* sample_Pm of a row, bid_down = (1 - rho_m) * norm_bid
sample_Pm(norm_bid, most_competitive, rho_m) ==
    Indicator(RhoUnit * most_competitive >= (RhoUnit - rho_m) * norm_bid)
        * Indicator(norm_bid >= most_competitive)

\* compute_demand_moments: the columns D, Pm, Pp and category of df
compute_demand_moments(df, rho_p, rho_m) ==
    IF df = <<>> THEN <<>>
    ELSE [i \in 1 .. Len(df) |->
            LET D == sample_D(df[i].norm_bid, df[i].most_competitive)
                Pm == sample_Pm(df[i].norm_bid, df[i].most_competitive, rho_m)
                Pp == sample_Pp(df[i].norm_bid, df[i].most_competitive, rho_p)
            IN  [D |-> D, Pm |-> Pm, Pp |-> Pp, category |-> encode(D, Pm, Pp)]]

\* np.sum(self.df_bids.category == c)
CountCategory(rows, c) == Cardinality({i \in 1 .. Len(rows) : rows[i].category = c})

\* sum of the values of f at positions i .. last
RECURSIVE SumFrom(_, _, _)
SumFrom(f, i, last) == IF i > last THEN 0 ELSE f[i] + SumFrom(f, i + 1, last)

\* categorize_histories: _enum_categories, keyed by outcome, and _num_histories
categorize_histories(rows) ==
    LET enum == [v \in Outcomes |->
                    CountCategory(rows, encode(v[1], v[2], v[3]))]
    IN  [categorized |-> TRUE,
         enum_categories |-> enum,
         num_histories |->
            SumFrom([i \in 0 .. 3 |-> enum[demand_outcomes[i]]], 0, 3)]

\* get_competitive_share(p_c): the sum of z * enum_categories[v] /
\* float(_num_histories), kept as numerator and denominator; numpy gives
\* nan for 0 / 0.0
get_competitive_share(h, p_c) ==
    [asked |-> TRUE, p_c |-> p_c,
     nan |-> h.num_histories = 0,
     num |-> SumFrom([i \in 0 .. 3 |-> p_c[i + 1] * h.enum_categories[demand_outcomes[i]]],
                     0, 3),
     den |-> h.num_histories]

\* the shares of the four outcomes that are called competitive
ShareVectors == [1 .. 4 -> {0, 1}]

HistoryFrames == UNION {[1 .. n -> RawRows] : n \in 1 .. MaxHistories}

InitMoments ==
    /\ \E df \in HistoryFrames :
          LET after == set_bid_data(df)
          IN  /\ given = df
              /\ df_bids = after.df_bids
              /\ df_auctions = after.df_auctions
              /\ list_available_auctions = after.list_available_auctions
    /\ MomentsIdle
    /\ NotDataIdle

\* a later call overwrites the columns of an earlier one: one call per
\* behaviour, with any rho_p and rho_m
ComputeDemandMoments(rho_p, rho_m) ==
    /\ ~demand.computed
    /\ demand' = [computed |-> TRUE, rho_p |-> rho_p, rho_m |-> rho_m,
                  rows |-> compute_demand_moments(df_bids, rho_p, rho_m)]
    /\ UNCHANGED <<given, df_bids, df_auctions, list_available_auctions,
                   lazy, histories, share, notData>>

\* categorize_histories reads the column category
CategorizeHistories ==
    /\ demand.computed
    /\ ~histories.categorized
    /\ histories' = categorize_histories(demand.rows)
    /\ UNCHANGED <<given, df_bids, df_auctions, list_available_auctions,
                   lazy, demand, share, notData>>

GetCompetitiveShare(p_c) ==
    /\ histories.categorized
    /\ ~share.asked
    /\ share' = get_competitive_share(histories, p_c)
    /\ UNCHANGED <<given, df_bids, df_auctions, list_available_auctions,
                   lazy, demand, histories, notData>>

NextMoments ==
    \/ \E rho_p, rho_m \in RhoValues : ComputeDemandMoments(rho_p, rho_m)
    \/ CategorizeHistories
    \/ \E p_c \in ShareVectors : GetCompetitiveShare(p_c)

SpecMoments == InitMoments /\ [][NextMoments]_vars

(***************************************************************************)
(* AsymptoticProblem and the tolerance AsymptoticMinCollusionSolver gives  *)
(* it (mb_api/asymptotics.py).  Weights are in halves, beliefs in halves,  *)
(* so weighted moments, empirical moments and tolerances are in quarters.  *)
(***************************************************************************)
Moments == {1, 2}
BeliefLevels == {0, 2}
DemandLevels == {0, 2, 4}
Margins == {1, 2}
Signs == {-1, 1}
WeightUnit == 2

NumMoments == Cardinality(Moments)

RECURSIVE DotTo(_, _, _)
DotTo(a, b, n) == IF n = 0 THEN 0 ELSE a[n] * b[n] + DotTo(a, b, n - 1)

\* np.dot of two vectors of the same length
Dot(a, b) == DotTo(a, b, Len(a))

\* PIDMeanAuctionData.confidence_threshold(weights, deviations, pvalue):
\* np.dot(demand_vector, weights) + x * standard_deviation / sqrt(num_auctions);
\* the second term, norm.ppf and a square root, is given as `margin`.
confidence_threshold(demand_vector, weights, margin) ==
    Dot(demand_vector, weights) + margin

\* AsymptoticMinCollusionSolver._get_tolerance: one threshold per row of
\* the moment matrix
get_tolerance(moment_matrix, demand_vector, margins) ==
    [r \in 1 .. ZipLen(moment_matrix, margins) |->
        confidence_threshold(demand_vector, moment_matrix[r], margins[r])]

\* np.diag(signs)
Diag(signs) ==
    [r \in 1 .. Len(signs) |-> [c \in 1 .. Len(signs) |-> IF r = c THEN signs[r] ELSE 0]]

\* cvxpy.matmul(self._beliefs.T, self.variable), the weights in halves
rationalizing_demands(beliefs, w) ==
    [k \in 1 .. NumMoments |->
        DotTo([e \in 1 .. Len(beliefs) |-> beliefs[e][k]], w, Len(beliefs))]

\* the fixed constant both sides of the constraint are multiplied by
Scale == 100

\* AsymptoticProblem._moment_constraint on the weight vector w
moment_constraint_left_scaled(p, w) ==
    LET demands == rationalizing_demands(p.beliefs, w)
    IN  \A r \in 1 .. Len(p.moment_matrix) :
            Scale * Dot(p.moment_matrix[r], demands) <= p.tolerance[r]

moment_constraint(p, w) ==
    LET demands == rationalizing_demands(p.beliefs, w)
    IN  \A r \in 1 .. Len(p.moment_matrix) :
            Scale * Dot(p.moment_matrix[r], demands) <= Scale * p.tolerance[r]

\* the weight vectors of the simplex: w >= 0, sum(w) = 1
Weights(n) ==
    {w \in [1 .. n -> 0 .. WeightUnit] :
        DotTo(w, [e \in 1 .. n |-> 1], n) = WeightUnit}

Problems ==
    UNION {
        {[beliefs |-> b, moment_matrix |-> Diag(sg), demands |-> d, margin |-> mg,
          tolerance |-> get_tolerance(Diag(sg), d, mg)] :
            b \in [1 .. n -> [1 .. NumMoments -> BeliefLevels]],
            sg \in [1 .. NumMoments -> Signs],
            d \in [1 .. NumMoments -> DemandLevels],
            mg \in [1 .. NumMoments -> Margins]} : n \in 1 .. MaxEnvs}

InitProblem ==
    /\ problem \in Problems
    /\ admitted = NotEvaluated
    /\ NotProblemIdle

\* the solver tries the weight vector w against the moment constraint
Constrain(w) ==
    /\ ~admitted.evaluated
    /\ admitted' = [evaluated |-> TRUE, w |-> w, ok |-> moment_constraint(problem, w)]
    /\ UNCHANGED <<problem, notProblem>>

NextProblem == \E w \in Weights(Len(problem.beliefs)) : Constrain(w)

SpecProblem == InitProblem /\ [][NextProblem]_vars

(***************************************************************************)
(* The parallel solvers (mb_api/asymptotics.py, on solvers.ParallelSolver): *)
(* one solve per point of the grid, run by a pool of workers, the results  *)
(* assembled in the order of the grid.                                     *)
(***************************************************************************)
ParallelClasses == {"ParallelAsymptoticSolver", "ParallelAsymptoticMultistageSolver"}

\* _solver_cls of the two classes
solver_cls(cls) ==
    IF cls = "ParallelAsymptoticSolver" THEN "AsymptoticMinCollusionSolver"
    ELSE "AsymptoticMultistageSolver"

\* A parameter point; the point 0 stands for one whose convex program is
\* infeasible.
Points == {0, 1, 2}

Grids == UNION {[1 .. n -> Points] : n \in 1 .. MaxGrid}

\* One solve of the class's solver for one point: a function of the point
\* alone (the population's size and seed are fixed); infeasibility is a
\* flagged result, not an exception.
SolvePoint(cls, point) ==
    [solver |-> solver_cls(cls), point |-> point, feasible |-> point # 0,
     solution |-> IF point # 0 THEN point ELSE NaN]

InitParallel ==
    /\ pool \in [cls : ParallelClasses, grid : Grids]
    /\ running = [wk \in Workers |-> 0]
    /\ results = <<>>
    /\ output = NotReturned
    /\ NotParallelIdle

Dispatched == {running[wk] : wk \in Workers} \cup {results[i].index : i \in 1 .. Len(results)}

\* an idle worker takes the next point of the grid
Dispatch(wk) ==
    /\ running[wk] = 0
    /\ \E k \in 1 .. Len(pool.grid) :
          /\ k \notin Dispatched
          /\ \A j \in 1 .. k - 1 : j \in Dispatched
          /\ running' = [running EXCEPT ![wk] = k]
    /\ UNCHANGED <<pool, results, output, notParallel>>

\* a worker completes its solve
Complete(wk) ==
    /\ running[wk] # 0
    /\ results' = Append(results, [index |-> running[wk],
                                   result |-> SolvePoint(pool.cls, pool.grid[running[wk]])])
    /\ running' = [running EXCEPT ![wk] = 0]
    /\ UNCHANGED <<pool, output, notParallel>>

\* the list the map returns: the results as the workers completed them
\* (Unordered), or each at the place of its point in the grid
AssembleUnordered(n, done) == [i \in 1 .. Len(done) |-> done[i].result]

Assemble(n, done) ==
    [k \in 1 .. n |-> done[CHOOSE i \in 1 .. Len(done) : done[i].index = k].result]

\* all points are solved: the parallel solver returns
Return ==
    /\ ~output.returned
    /\ Len(results) = Len(pool.grid)
    /\ output' = [returned |-> TRUE, list |-> Assemble(Len(pool.grid), results)]
    /\ UNCHANGED <<pool, running, results, notParallel>>

NextParallel ==
    \/ \E wk \in Workers : Dispatch(wk)
    \/ \E wk \in Workers : Complete(wk)
    \/ Return

SpecParallel == InitParallel /\ [][NextParallel]_vars

(***************************************************************************)
(* The p-values and the tolerance of AsymptoticMinCollusionSolver and      *)
(* AsymptoticMultistageSolver (mb_api/asymptotics.py).  A confidence level *)
(* is in percent; a p-value is the fraction num / den of a percent.  A     *)
(* tolerance entry is kept as the call of confidence_threshold that gives  *)
(* it: the weights (a row of the moment matrix) and the p-value.           *)
(***************************************************************************)
Percent == 100

ConfidenceValues == {90, 95}

\* AsymptoticMultistageSolver.default_moment_matrix
default_moment_matrix == Diag(<<-1, 1, 1, 1, -1>>)

\* the number of moments AsymptoticMultistageSolver._get_pvalues divides by
MultistageMoments == 5

FloatLevel(c) == [isfloat |-> TRUE, level |-> c, levels |-> <<>>]

ListLevel(cs) == [isfloat |-> FALSE, level |-> 0, levels |-> cs]

\* the confidence_level argument: a float, or a list of floats
ConfidenceLevels ==
    {FloatLevel(c) : c \in ConfidenceValues}
        \cup UNION {{ListLevel(cs) : cs \in [1 .. n -> ConfidenceValues]} : n \in 1 .. MaxLevels}

\* the moment_matrix argument of the solver
MomentMatrices == UNION {{Diag(sg) : sg \in [1 .. n -> Signs]} : n \in 1 .. MaxMoments}

\* np.array([1 - confidence_level] * n) / n
EqualPvalues(c, n) == [k \in 1 .. n |-> [num |-> Percent - c, den |-> n]]

\* 1 - np.array(confidence_level)
ListPvalues(cs) == [k \in 1 .. Len(cs) |-> [num |-> Percent - cs[k], den |-> 1]]

\* AsymptoticMinCollusionSolver._get_pvalues
get_pvalues_min_collusion(moment_matrix, confidence_level) ==
    IF confidence_level.isfloat
    THEN EqualPvalues(confidence_level.level, Len(moment_matrix))
    ELSE ListPvalues(confidence_level.levels)

\* AsymptoticMultistageSolver._get_pvalues
get_pvalues_multistage(moment_matrix, confidence_level) ==
    IF confidence_level.isfloat
    THEN EqualPvalues(confidence_level.level, MultistageMoments)
    ELSE ListPvalues(confidence_level.levels)

\* self._get_pvalues(self._confidence_level), by the class of the solver
get_pvalues(s) ==
    IF s.cls = "AsymptoticMultistageSolver"
    THEN get_pvalues_multistage(s.moment_matrix, s.confidence_level)
    ELSE get_pvalues_min_collusion(s.moment_matrix, s.confidence_level)

\* _get_tolerance(pvalues): one confidence_threshold call for every pair of
\* zip(self._moment_matrix, pvalues)
tolerance_calls(moment_matrix, pvalues) ==
    [k \in 1 .. ZipLen(moment_matrix, pvalues) |->
        [weights |-> moment_matrix[k], pvalue |-> pvalues[k]]]

Solvers ==
    {[cls |-> "AsymptoticMinCollusionSolver", moment_matrix |-> mat,
      confidence_level |-> cl] : mat \in MomentMatrices, cl \in ConfidenceLevels}
    \cup
    {[cls |-> "AsymptoticMultistageSolver", moment_matrix |-> mat,
      confidence_level |-> cl] :
        mat \in MomentMatrices \cup {default_moment_matrix}, cl \in ConfidenceLevels}

InitSolver ==
    /\ solver \in Solvers
    /\ tolerance = NoTolerance
    /\ NotSolverIdle

\* a read of the property tolerance
ReadTolerance ==
    /\ ~tolerance.read
    /\ tolerance' =
          LET pvalues == get_pvalues(solver)
          IN  [read |-> TRUE, pvalues |-> pvalues,
               tolerance |-> tolerance_calls(solver.moment_matrix, pvalues)]
    /\ UNCHANGED <<solver, notSolver>>

NextSolver == ReadTolerance

SpecSolver == InitSolver /\ [][NextSolver]_vars

(***************************************************************************)
(* Claims about environment generation.                                    *)
(***************************************************************************)
OkCalls == {i \in 1 .. Len(calls) : calls[i].status = "ok"}

Rows(i) == {calls[i].env[r] : r \in 1 .. Len(calls[i].env)}

\* C1: every row a generation call returns has win_down >= win0 >= win_up.
C1_WinOrdering ==
    \A i \in OkCalls : \A row \in Rows(i) :
        row[win_down] >= row[win0] /\ row[win0] >= row[win_up]

\* a returned row whose three win probabilities are all different
C1_Witness ==
    \E i \in OkCalls : \E row \in Rows(i) :
        row[win_down] > row[win0] /\ row[win0] > row[win_up]

\* C2: a call with a non-negative integer N returns exactly N rows of 7
\* components, and two calls with the same (N, seed) return the same
\* population whatever calls were made in between.
C2_RowsAndDeterminism ==
    /\ \A i \in OkCalls :
          calls[i].num >= 0 /\ calls[i].num % 2 = 0
          => /\ 2 * Len(calls[i].env) = calls[i].num
             /\ \A row \in Rows(i) : Len(row) = 7
    /\ \A i, j \in 1 .. Len(calls) :
          calls[i].num = calls[j].num /\ calls[i].seed = calls[j].seed
          => calls[i].status = calls[j].status /\ calls[i].env = calls[j].env

\* the same (N, seed) called twice with a call of another seed in between
C2_Witness ==
    /\ Len(calls) = 3
    /\ calls[1].num = calls[3].num /\ calls[1].seed = calls[3].seed
    /\ calls[2].seed # calls[1].seed
    /\ \A i \in 1 .. 3 : IsPositiveInteger(calls[i].num) /\ calls[i].status = "ok"
    /\ calls[2].env # calls[1].env

\* C5: a call whose N is not a positive integer fails with an invalid-argument
\* error and returns no population.
C5_InvalidSizeRejected ==
    \A i \in 1 .. Len(calls) :
        ~IsPositiveInteger(calls[i].num) => calls[i].status = "ValueError"

\* C9: in every returned row 0 <= marg_cont <= win_down - win0,
\* 0 <= marg_info <= 1 - win_down, and reserve and cost lie in [0, 1].
C9_DependentRanges ==
    \A i \in OkCalls : \A row \in Rows(i) :
        /\ 0 <= row[marg_cont] /\ row[marg_cont] <= row[win_down] - row[win0]
        /\ 0 <= row[marg_info] /\ row[marg_info] <= One - row[win_down]
        /\ 0 <= row[reserve] /\ row[reserve] <= One
        /\ 0 <= row[cost] /\ row[cost] <= One

\* a returned row whose two marginal probabilities are both positive
C9_Witness ==
    \E i \in OkCalls : \E row \in Rows(i) :
        /\ row[marg_cont] > 0 /\ row[marg_info] > 0
        /\ row[marg_cont] < row[win_down] - row[win0]

\* C10: a generation call returns the population of (N, seed) whatever other
\* call interleaves with it, and leaves the process-wide generator as it
\* found it.
C10_NoSharedGeneratorState ==
    \A t \in Threads :
        thr[t].pc = "done"
        => /\ thr[t].env = GenerateRaw(thr[t].rng0, thr[t].num, thr[t].seed).env
           /\ (\A u \in Threads \ {t} : thr[u].pc = "idle") => rng = thr[t].rng0

(***************************************************************************)
(* Claims about the collusion metrics.                                     *)
(***************************************************************************)
Negatives(deviations) == {d \in Range(deviations) : d < 0}

Positives(deviations) == {d \in Range(deviations) : d > 0}

OneDownOneUp(deviations) ==
    Cardinality(Negatives(deviations)) = 1 /\ Cardinality(Positives(deviations)) = 1

\* C3: constructing RefinedMultistageIsNonCompetitive with a profile that has
\* not exactly one negative and exactly one positive deviation (counting each
\* value once) raises ValueError in _check_up_down_deviations, before any
\* other step of the construction; with exactly one of each nothing is raised.
C3_ProfileChecked ==
    metric.cls = "RefinedMultistageIsNonCompetitive"
    => IF OneDownOneUp(metric.given)
       THEN /\ metric.error = ""
            /\ metric.steps[1] = "_check_up_down_deviations"
            /\ {metric.rho_down} = Negatives(metric.given)
            /\ {metric.rho_up} = Positives(metric.given)
       ELSE /\ metric.error = "ValueError"
            /\ metric.steps = <<"_check_up_down_deviations">>
            /\ metric.deviations = <<>>

\* a profile with a downward but no upward deviation was refused
C3_Witness ==
    /\ metric.cls = "RefinedMultistageIsNonCompetitive"
    /\ Negatives(metric.given) # {} /\ Positives(metric.given) = {}
    /\ Cardinality(Negatives(metric.given)) = 1
    /\ metric.error = "ValueError"

\* the payoff of the i-th ordered deviation in the environment called on
PayoffAt(i) ==
    verdict.env[i] * (Den + metric.deviations[i] - verdict.env[Len(verdict.env)])

EquilibriumPayoff ==
    LET i == CHOOSE j \in 1 .. Len(metric.deviations) : metric.deviations[j] = 0
    IN  PayoffAt(i)

DownwardTempting ==
    \E i \in 1 .. Len(metric.deviations) :
        /\ metric.deviations[i] < 0
        /\ PayoffAt(i) + (Den - verdict.env[i]) * metric.deviations[i] > EquilibriumPayoff

UpwardTempting ==
    \E i \in 1 .. Len(metric.deviations) :
        metric.deviations[i] > 0 /\ PayoffAt(i) > EquilibriumPayoff

\* C6: MultistageIsNonCompetitive flags an environment exactly when some
\* downward deviation's payoff plus (max_win_prob - p_d) * d, or some upward
\* deviation's payoff, is strictly greater than the equilibrium payoff; with
\* no negative deviation the downward check is False and the call does not
\* fail on an empty set of payoffs.
C6_FlagIffTempting ==
    verdict.called
    => /\ verdict.error = ""
       /\ verdict.flagged <=> (DownwardTempting \/ UpwardTempting)

\* flagged by the downward check alone, and: a downward deviation whose bare
\* payoff beats the equilibrium payoff but whose penalised payoff does not
C6_Witness ==
    /\ verdict.called /\ verdict.flagged
    /\ DownwardTempting /\ ~UpwardTempting

C6_WitnessPenalty ==
    /\ verdict.called /\ ~verdict.flagged
    /\ \E i \in 1 .. Len(metric.deviations) :
          metric.deviations[i] < 0 /\ PayoffAt(i) > EquilibriumPayoff

(***************************************************************************)
(* Claims about AuctionData.                                               *)
(***************************************************************************)
\* the non-null bids of auction a in the frame passed to set_bid_data
GivenBids(a) == BidsOf(given, a)

MinOfSet(S) == CHOOSE x \in S : \A y \in S : x <= y

\* the lowest of the bids of auction a other than one bid of value v
LowestOther(a, v) ==
    LET bids == GivenBids(a)
        k == CHOOSE i \in 1 .. Len(bids) : bids[i] = v
    IN  MinOfSet({bids[j] : j \in (1 .. Len(bids)) \ {k}})

\* C7: after set_bid_data every retained bid has a non-null normalised bid,
\* belongs to an auction with at least two non-null bids, and has as
\* most_competitive the lowest normalised bid among the other bids of its
\* auction; no bid of an auction with fewer than two non-null bids is kept.
C7_MostCompetitive ==
    \A i \in 1 .. Len(df_bids) :
        LET b == df_bids[i]
        IN  /\ ~isnull(b.norm_bid)
            /\ Len(GivenBids(b.pid)) >= 2
            /\ \E k \in 1 .. Len(given) :
                  given[k].pid = b.pid /\ given[k].norm_bid = b.norm_bid
            /\ b.most_competitive = LowestOther(b.pid, b.norm_bid)
            /\ b.most_competitive =
                  (IF b.norm_bid = df_auctions[b.pid].lowest
                   THEN df_auctions[b.pid].second_lowest
                   ELSE df_auctions[b.pid].lowest)

\* a retained bid that is alone the lowest of its auction, a retained bid
\* that is not the lowest, and a bid dropped with its single-bid auction
C7_Witness ==
    /\ \E i \in 1 .. Len(df_bids) : df_bids[i].most_competitive > df_bids[i].norm_bid
    /\ \E i \in 1 .. Len(df_bids) : df_bids[i].most_competitive < df_bids[i].norm_bid
    /\ \E k \in 1 .. Len(given) :
          ~isnull(given[k].norm_bid) /\ Len(GivenBids(given[k].pid)) = 1
    /\ Len(df_bids) = 2

(***************************************************************************)
(* Claims about the moment constraint.                                     *)
(***************************************************************************)
\* row r of the moment matrix applied to the w-weighted environment moments
WeightedMoment(r) ==
    Dot(problem.moment_matrix[r], rationalizing_demands(problem.beliefs, admitted.w))

Abs(x) == IF x < 0 THEN -x ELSE x

MomentRows == 1 .. Len(problem.moment_matrix)

\* the two-sided bound, the empirical moment being the demand vector's entry
\* and the tolerance the one the problem holds
TwoSidedAsHeld ==
    \A r \in MomentRows :
        Abs(WeightedMoment(r) - problem.demands[r]) <= problem.tolerance[r]

\* the two-sided bound, the empirical moment being the moment matrix applied
\* to the demand vector and the tolerance the statistical margin
TwoSidedCentred ==
    \A r \in MomentRows :
        Abs(WeightedMoment(r) - Dot(problem.moment_matrix[r], problem.demands))
            <= problem.margin[r]

\* C8 as stated: w is admitted exactly when, for every moment row, the
\* absolute difference between the weighted moment and the empirical moment
\* is at most the tolerance (under either reading of the two).
C8_TwoSidedBound ==
    admitted.evaluated
    => \/ admitted.ok <=> TwoSidedAsHeld
       \/ admitted.ok <=> TwoSidedCentred

\* C8 amended: w is admitted exactly when, for every moment row, the weighted
\* moment is at most the tolerance, which is the row applied to the demand
\* vector plus the margin: an upper bound only; the constant both sides are
\* multiplied by changes nothing.
C8_OneSidedBound ==
    admitted.evaluated
    => /\ admitted.ok <=> \A r \in MomentRows : WeightedMoment(r) <= problem.tolerance[r]
       /\ admitted.ok <=>
             \A r \in MomentRows :
                 WeightedMoment(r) - Dot(problem.moment_matrix[r], problem.demands)
                     <= problem.margin[r]

\* an admitted weight vector whose weighted moment is below the empirical one
\* by more than the margin
C8_Witness ==
    /\ admitted.evaluated /\ admitted.ok
    /\ \E r \in MomentRows :
          Dot(problem.moment_matrix[r], problem.demands) - WeightedMoment(r)
              > problem.margin[r]
    /\ \E e \in 1 .. Len(admitted.w) : admitted.w[e] \notin {0, WeightUnit}

(***************************************************************************)
(* Claims about the parallel solvers.                                      *)
(***************************************************************************)
\* C4: for a grid of n points the parallel solver returns exactly n results,
\* the k-th being the result of solving the k-th point, whatever the order
\* the workers complete in and also when points are infeasible.
C4_OrderPreserved ==
    output.returned
    => /\ Len(output.list) = Len(pool.grid)
       /\ \A k \in 1 .. Len(pool.grid) :
             /\ output.list[k].point = pool.grid[k]
             /\ output.list[k].feasible = (pool.grid[k] # 0)

\* returned, the workers having completed out of the grid's order, one point
\* being infeasible
C4_Witness ==
    /\ output.returned
    /\ \E i \in 1 .. Len(results) - 1 :
          /\ results[i].index > results[i + 1].index
          /\ results[i].result # results[i + 1].result
    /\ \E k \in 1 .. Len(pool.grid) : ~output.list[k].feasible

(***************************************************************************)
(* Claims about the lazily cached counts.                                  *)
(***************************************************************************)
\* what a read of the property returns in the current state
ValueRead(attribute, fresh) == LazyProperty(attribute, fresh).value

\* C12: after any sequence of set_bid_data calls and reads of num_auctions
\* and num_bids, num_auctions is the number of distinct auction ids of the
\* current df_bids and num_bids is the current number of bid rows.
C12_CountsCurrent ==
    /\ ValueRead(lazy.num_auctions, num_auctions(df_bids)) = num_auctions(df_bids)
    /\ ValueRead(lazy.num_bids, num_bids(df_bids)) = num_bids(df_bids)

(***************************************************************************)
(* Claims about the demand outcomes.                                       *)
(***************************************************************************)
OutcomeOf(row) == <<row.D, row.Pm, row.Pp>>

AllCompetitive == [i \in 1 .. 4 |-> 1]

\* every retained bid has one of the four demand outcomes, and the
\* histories counted are the rows of df_bids
OutcomesPartition ==
    /\ demand.computed =>
          /\ Len(demand.rows) = Len(df_bids)
          /\ \A i \in 1 .. Len(demand.rows) :
                /\ Cardinality({k \in 0 .. 3 :
                        demand_outcomes[k] = OutcomeOf(demand.rows[i])}) = 1
                /\ demand.rows[i].Pp = 1 => demand.rows[i].D = 1
                /\ demand.rows[i].Pm = 1 => demand.rows[i].D = 0
    /\ histories.categorized => histories.num_histories = Len(df_bids)

\* C14 as stated: after compute_demand_moments and categorize_histories,
\* for every rho_p and rho_m, every retained bid has exactly one of the four
\* demand outcomes, num_histories is the number of rows of df_bids and
\* get_competitive_share([1, 1, 1, 1]) is 1.
C14_ShareAlwaysOne ==
    /\ OutcomesPartition
    /\ (share.asked /\ share.p_c = AllCompetitive) =>
          (~share.nan /\ share.num = share.den)

\* C14, amended: the outcomes and num_histories are as stated for every
\* rho_p and rho_m; get_competitive_share([1, 1, 1, 1]) is 1 when df_bids
\* retains at least one bid, and nan (0 / 0.0) when it retains none.
C14_ShareOneUnlessEmpty ==
    /\ OutcomesPartition
    /\ (share.asked /\ share.p_c = AllCompetitive) =>
          IF Len(df_bids) > 0
          THEN ~share.nan /\ share.num = share.den
          ELSE share.nan

\* all four outcomes are not needed at once: a frame with a bid that wins
\* and would lose after the upward deviation, and a bid that loses and
\* would win or tie after the downward one, asked for the share of all
C14_Witness ==
    /\ share.asked
    /\ share.p_c = AllCompetitive
    /\ \E i, j \in 1 .. Len(demand.rows) :
          /\ OutcomeOf(demand.rows[i]) = <<1, 0, 1>>
          /\ OutcomeOf(demand.rows[j]) = <<0, 1, 0>>

(***************************************************************************)
(* Claims about the multistage win vector.                                 *)
(***************************************************************************)
NegativeOf(deviations) == CHOOSE x \in Range(deviations) : x < 0

PositiveOf(deviations) == CHOOSE x \in Range(deviations) : x > 0

\* C13: for every deviation profile that passes _check_up_down_deviations,
\* whatever its order and length, _win_vector returns the five moment
\* columns, win_down computed from the negative deviation, win0 from the
\* zero deviation, win_up from the positive one, marg_cont and marg_info
\* from the negative one.
C13_ColumnsFromTheirDeviation ==
    (win_vector.called /\ win_vector.error # "ValueError") =>
        /\ win_vector.error = ""
        /\ DOMAIN win_vector.columns = Range(moment_names)
        /\ win_vector.columns["win_down"] =
                Column("_get_new_wins", NegativeOf(win_vector.deviations))
        /\ win_vector.columns["win0"] = Column("_get_new_wins", 0)
        /\ win_vector.columns["win_up"] =
                Column("_get_new_wins", PositiveOf(win_vector.deviations))
        /\ win_vector.columns["marg_cont"] =
                Column("is_marginal_cont", NegativeOf(win_vector.deviations))
        /\ win_vector.columns["marg_info"] =
                Column("is_marginal_info", NegativeOf(win_vector.deviations))

(***************************************************************************)
(* Claims about the solver's tolerance.                                    *)
(***************************************************************************)
\* C11: the tolerance has exactly one entry per row of the moment matrix,
\* in row order, for every confidence level: with a float c every one of
\* the m rows gets the p-value (1 - c) / m, with a list row k gets
\* 1 - c_k; no row is left without a tolerance.
C11_OneTolerancePerRow ==
    tolerance.read =>
        LET m == Len(solver.moment_matrix)
            cl == solver.confidence_level
        IN  /\ Len(tolerance.tolerance) = m
            /\ \A k \in 1 .. m :
                  /\ tolerance.tolerance[k].weights = solver.moment_matrix[k]
                  /\ tolerance.tolerance[k].pvalue =
                        IF cl.isfloat
                        THEN [num |-> Percent - cl.level, den |-> m]
                        ELSE [num |-> Percent - cl.levels[k], den |-> 1]

====
